---- MODULE Spec2Model ----
(***************************************************************************)
(* A model of the ByteString type of src/src/bytestr.rs: an owned byte     *)
(* vector with value semantics, read-only slicing and one fallible         *)
(* conversion to a UTF-8 validated String.                                 *)
(*                                                                         *)
(* A run of the model is one life of one ByteString: an input of one of    *)
(* the admissible shapes is chosen, the buffer is constructed from it, any *)
(* number of borrowing operations are applied, and the buffer is finally   *)
(* consumed (into_bytes, into_utf8_string) or the task fails in an         *)
(* out-of-bounds slice.                                                    *)
(***************************************************************************)
EXTENDS Integers, Sequences, FiniteSets, TLC

VARIABLES
    pc,     \* "start" | "live" | "consumed" | "failed"
    src,    \* the value handed to the constructor: [kind, data]
    buf,    \* the Vec<u8> owned by the ByteString (field .0)
    ret     \* the last operation, its arguments and what it returned

vars == <<pc, src, buf, ret>>

----------------------------------------------------------------------------
(* Bounds of the model.                                                    *)

\* longest enumerated byte input
MaxLen == 2
\* longest enumerated right-hand operand of == and cmp
MaxOther == 1
\* longest enumerated text (in chars)
MaxChars == 1

\* The byte values the enumerated inputs are drawn from: NUL, two
\* continuation bytes (0x80, 0xA0), a two-byte lead (0xC2) and a
\* three-byte lead (0xE0).
Bytes == {0, 128, 160, 194, 224}

\* The chars the enumerated texts are drawn from: NUL, U+0080, U+0800
\* (one, two and three bytes of UTF-8).
Chars == {0, 128, 2048}

RECURSIVE SeqsUpTo(_, _)
SeqsUpTo(S, n) ==
    IF n = 0 THEN {<<>>}
    ELSE LET shorter == SeqsUpTo(S, n - 1)
         IN  shorter \cup {Append(s, x) : s \in {t \in shorter : Len(t) = n - 1}, x \in S}

\* Byte sequences of particular interest: [255, 50, 48, 49], "hello",
\* "abc", "ab", U+0800 and its overlong form, a UTF-16 surrogate in three
\* bytes, U+10000 whole and cut short, its overlong form, and a value
\* above U+10FFFF.
ScenarioBytes ==
    { <<255, 50, 48, 49>>, <<104, 101, 108, 108, 111>>, <<97, 98, 99>>, <<97, 98>>,
      <<224, 160, 128>>, <<224, 128, 128>>, <<237, 160, 128>>,
      <<240, 144, 128, 128>>, <<240, 144, 128>>, <<240, 128, 128, 128>>,
      <<244, 144, 128, 128>> }

\* Right-hand operands of particular interest: "abc", "abd", "ab", "abcd"
\* and [255, 50, 48, 49].
ScenarioOthers ==
    { <<97, 98, 99>>, <<97, 98, 100>>, <<97, 98>>, <<97, 98, 99, 100>>,
      <<255, 50, 48, 49>> }

\* Texts of particular interest: "hello", "abc", "abd", "ab", "abcd",
\* U+10000.
ScenarioChars ==
    { <<104, 101, 108, 108, 111>>, <<97, 98, 99>>, <<97, 98, 100>>, <<97, 98>>,
      <<97, 98, 99, 100>>, <<65536>> }

ByteSeqs == SeqsUpTo(Bytes, MaxLen) \cup ScenarioBytes
OtherSeqs == SeqsUpTo(Bytes, MaxOther) \cup ScenarioOthers
CharSeqs == SeqsUpTo(Chars, MaxChars) \cup ScenarioChars

----------------------------------------------------------------------------
(* Text values.  A String owns a Vec<u8> holding the UTF-8 encoding of its *)
(* chars; a &str is a borrowed view of such bytes.                         *)

\* char::encode_utf8: the UTF-8 bytes of one Unicode scalar value
EncodeUtf8(c) ==
    IF c < 128 THEN <<c>>
    ELSE IF c < 2048 THEN <<192 + (c \div 64), 128 + (c % 64)>>
    ELSE IF c < 65536 THEN
        <<224 + (c \div 4096), 128 + ((c \div 64) % 64), 128 + (c % 64)>>
    ELSE <<240 + (c \div 262144), 128 + ((c \div 4096) % 64),
           128 + ((c \div 64) % 64), 128 + (c % 64)>>

RECURSIVE StrBytes(_)
\* str::as_bytes / String::into_bytes of the text with chars cs
StrBytes(cs) ==
    IF cs = <<>> THEN <<>> ELSE EncodeUtf8(Head(cs)) \o StrBytes(Tail(cs))

\* the String with chars cs
MkString(cs) == [vec |-> StrBytes(cs)]

\* a borrowed &str viewing the text with chars cs
MkStr(cs) == [bytes |-> StrBytes(cs)]

----------------------------------------------------------------------------
(* IntoVector: the admissible input shapes of from_bytes.                  *)

\* impl IntoVector<T> for Vec<T>: the vector is moved in
VecIntoVec(v) == v

\* impl IntoVector<T> for &[T]: to_vec clones every element in order
SliceIntoVec(s) == [i \in 1..Len(s) |-> s[i]]

\* impl IntoVector<u8> for String: String::into_bytes hands over its vec
StringIntoVec(s) == s.vec

\* impl IntoVector<u8> for &str: into_string copies the viewed bytes into a
\* new String, whose vec is then handed over
StrIntoVec(s) == StringIntoVec([vec |-> SliceIntoVec(s.bytes)])

\* into_vec, dispatched on the shape of the input
IntoVec(x) ==
    CASE x.kind = "vec"    -> VecIntoVec(x.data)
      [] x.kind = "slice"  -> SliceIntoVec(x.data)
      [] x.kind = "string" -> StringIntoVec(x.data)
      [] x.kind = "str"    -> StrIntoVec(x.data)

RECURSIVE CollectReversed(_)
\* a collect that pushes each item at the front: the items come out in
\* the reverse of the order they were yielded in
CollectReversed(it) ==
    IF it = <<>> THEN <<>> ELSE CollectReversed(Tail(it)) \o <<Head(it)>>

RECURSIVE Collect(_)
\* Iterator::collect::<Vec<u8>>: next() until None, pushing each item; the
\* iterator is the sequence of items it has yet to yield
Collect(it) ==
    IF it = <<>> THEN <<>> ELSE <<Head(it)>> \o Collect(Tail(it))

----------------------------------------------------------------------------
(* ByteString: the tuple struct ByteString(Vec<u8>), field f0.             *)

\* the tuple-struct constructor
ByteString(v) == [f0 |-> v]

\* ByteString::from_bytes
from_bytes(x) == ByteString(IntoVec(x))

\* FromIterator<u8>::from_iter
from_iter(it) == from_bytes([kind |-> "vec", data |-> Collect(it)])

\* ByteString::into_bytes
into_bytes(self) == self.f0

\* Deref<[u8]>::deref: the slice of the whole vector
deref(self) == self.f0

\* ByteString::as_bytes
as_bytes(self) == deref(self)

\* AsSlice<u8>::as_slice
as_slice(self) == as_bytes(self)

\* [u8]::len
SliceLen(s) == Len(s)

\* ByteString::len
len(self) == SliceLen(as_bytes(self))

\* an emptiness test with the comparison the wrong way round
is_empty_inverted(self) == len(self) > 0

\* ByteString::is_empty
is_empty(self) == len(self) = 0

----------------------------------------------------------------------------
(* String::from_utf8, as called by into_utf8_string.                       *)

\* a continuation byte: b & !CONT_MASK == TAG_CONT_U8
IsCont(b) == b >= 128 /\ b <= 191

\* utf8_char_width: the length the first byte announces, 0 if it is no
\* legal first byte
Utf8CharWidth(b) ==
    IF b < 128 THEN 1
    ELSE IF b >= 194 /\ b <= 223 THEN 2
    ELSE IF b >= 224 /\ b <= 239 THEN 3
    ELSE IF b >= 240 /\ b <= 244 THEN 4
    ELSE 0

\* the ranges of the second byte of a three-byte sequence
Second3(first, second) ==
    \/ first = 224 /\ second >= 160 /\ second <= 191
    \/ first >= 225 /\ first <= 236 /\ second >= 128 /\ second <= 191
    \/ first = 237 /\ second >= 128 /\ second <= 159
    \/ first >= 238 /\ first <= 239 /\ second >= 128 /\ second <= 191

\* the ranges of the second byte of a four-byte sequence
Second4(first, second) ==
    \/ first = 240 /\ second >= 144 /\ second <= 191
    \/ first >= 241 /\ first <= 243 /\ second >= 128 /\ second <= 191
    \/ first = 244 /\ second >= 128 /\ second <= 143

RECURSIVE IsUtf8From(_, _)
\* the validation loop, from (1-based) position i of v
IsUtf8From(v, i) ==
    IF i > Len(v) THEN TRUE
    ELSE LET first == v[i]
             w == Utf8CharWidth(first)
         IN  IF first < 128 THEN IsUtf8From(v, i + 1)
             ELSE IF w = 0 \/ i + w - 1 > Len(v) THEN FALSE
             ELSE IF w = 2 THEN
                 IsCont(v[i + 1]) /\ IsUtf8From(v, i + 2)
             ELSE IF w = 3 THEN
                 /\ Second3(first, v[i + 1])
                 /\ IsCont(v[i + 2])
                 /\ IsUtf8From(v, i + 3)
             ELSE
                 /\ Second4(first, v[i + 1])
                 /\ IsCont(v[i + 2])
                 /\ IsCont(v[i + 3])
                 /\ IsUtf8From(v, i + 4)

\* str::is_utf8
IsUtf8(v) == IsUtf8From(v, 1)

\* String::from_utf8: Ok(String { vec }) if the bytes validate, else the
\* vector is handed back as Err(vec)
FromUtf8(v) ==
    IF IsUtf8(v) THEN [ok |-> TRUE, val |-> [vec |-> v]]
    ELSE [ok |-> FALSE, val |-> v]

\* an into_utf8_string whose error path builds the ByteString anew instead
\* of from the vector from_utf8 hands back: the bytes are lost
into_utf8_string_losing(self) ==
    LET r == FromUtf8(into_bytes(self))
    IN  IF r.ok THEN r ELSE [ok |-> FALSE, val |-> ByteString(<<>>)]

\* an into_utf8_string that wraps the bytes without validating them (as
\* from_utf8_unchecked would)
into_utf8_string_unchecked(self) == [ok |-> TRUE, val |-> [vec |-> into_bytes(self)]]

\* ByteString::into_utf8_string: map_err(ByteString) on from_utf8's result
into_utf8_string(self) ==
    LET r == FromUtf8(into_bytes(self))
    IN  IF r.ok THEN r ELSE [ok |-> FALSE, val |-> ByteString(r.val)]

----------------------------------------------------------------------------
(* ops::Slice: the views of the buffer.  A call either fails the task      *)
(* (fail) or returns a view of the underlying bytes.                       *)

\* a slicing that clamps its offsets to the slice instead of failing
SliceClamped(s, start, end) ==
    LET e == IF end <= SliceLen(s) THEN end ELSE SliceLen(s)
        b == IF start <= e THEN start ELSE e
    IN  [fail |-> FALSE, view |-> [k \in 1..(e - b) |-> s[b + k]]]

\* [T]::slice_or_fail: assert!(start <= end); assert!(end <= self.len());
\* then the view of len end - start that begins start elements in
SliceOrFail(s, start, end) ==
    IF ~(start <= end) \/ ~(end <= SliceLen(s)) THEN [fail |-> TRUE, view |-> <<>>]
    ELSE [fail |-> FALSE, view |-> [k \in 1..(end - start) |-> s[start + k]]]

\* [T]::slice_from_or_fail: slice_or_fail(start, &self.len())
SliceFromOrFail(s, start) == SliceOrFail(s, start, SliceLen(s))

\* [T]::slice_to_or_fail: slice_or_fail(&0, end)
SliceToOrFail(s, end) == SliceOrFail(s, 0, end)

\* a slice_or_fail that delegates as slice_to_or_fail does: start is
\* never passed on
slice_or_fail_dropping_start(self, start, end) == SliceToOrFail(as_slice(self), end)

\* a slice_or_fail that delegates to the clamping slicing
slice_or_fail_clamped(self, start, end) == SliceClamped(as_slice(self), start, end)

\* ops::Slice::slice_or_fail for ByteString
slice_or_fail(self, start, end) == SliceOrFail(as_slice(self), start, end)

\* ops::Slice::slice_from_or_fail for ByteString
slice_from_or_fail(self, start) == SliceFromOrFail(as_slice(self), start)

\* ops::Slice::slice_to_or_fail for ByteString
slice_to_or_fail(self, end) == SliceToOrFail(as_slice(self), end)

----------------------------------------------------------------------------
(* The derived PartialEq, Eq, PartialOrd, Ord: those of the one field.     *)

\* PartialEq for [u8]: equal lengths and equal elements, pairwise
SliceEq(a, b) ==
    SliceLen(a) = SliceLen(b) /\ \A i \in 1..SliceLen(a) : a[i] = b[i]

\* u8::cmp: the order of the unsigned values
ByteCmp(x, y) == IF x < y THEN "Less" ELSE IF x = y THEN "Equal" ELSE "Greater"

RECURSIVE SliceCmpFrom(_, _, _)
\* Ord for [u8]: both iterators are stepped together; the first unequal
\* pair decides, and an iterator that ends first is the smaller
SliceCmpFrom(a, b, i) ==
    IF i > Len(a) /\ i > Len(b) THEN "Equal"
    ELSE IF i > Len(a) THEN "Less"
    ELSE IF i > Len(b) THEN "Greater"
    ELSE IF ByteCmp(a[i], b[i]) = "Equal" THEN SliceCmpFrom(a, b, i + 1)
    ELSE ByteCmp(a[i], b[i])

\* an equality that walks both vectors in step and stops at the end of
\* the shorter, never comparing the lengths
eq_common_prefix(self, other) ==
    \A i \in 1..(IF Len(self.f0) <= Len(other.f0) THEN Len(self.f0) ELSE Len(other.f0)) :
        self.f0[i] = other.f0[i]

\* #[deriving(PartialEq, Eq)]: self.0 == other.0
eq(self, other) == SliceEq(self.f0, other.f0)

\* an ordering that compares the lengths first and the bytes only between
\* vectors of one length
cmp_length_first(self, other) ==
    IF Len(self.f0) < Len(other.f0) THEN "Less"
    ELSE IF Len(self.f0) > Len(other.f0) THEN "Greater"
    ELSE SliceCmpFrom(self.f0, other.f0, 1)

\* #[deriving(PartialOrd, Ord)]: self.0.cmp(&other.0)
cmp(self, other) == SliceCmpFrom(self.f0, other.f0, 1)

----------------------------------------------------------------------------
(* hash::Hash.  A hash::Writer is known by the bytes written to it so      *)
(* far: whatever it computes is a function of that stream.                 *)

\* width of uint in bytes
UintWidth == 8

RECURSIVE LeBytes(_, _)
\* the k low bytes of n, least significant first
LeBytes(n, k) ==
    IF k = 0 THEN <<>> ELSE <<n % 256>> \o LeBytes(n \div 256, k - 1)

\* uint::hash: the value's bytes are written
UintBytes(n) == LeBytes(n, UintWidth)

RECURSIVE WriteAll(_, _, _)
\* the loop of Hash for [u8]: every element is written in turn
WriteAll(h, s, i) ==
    IF i > Len(s) THEN h ELSE WriteAll(Append(h, s[i]), s, i + 1)

\* Hash for [u8]: the length is written, then the elements
SliceHash(s, h) == WriteAll(h \o UintBytes(SliceLen(s)), s, 1)

\* hash::Hash::hash for ByteString
hash(self, hasher) == SliceHash(as_slice(self), hasher)

----------------------------------------------------------------------------
(* Equiv and Show.                                                         *)

\* an equiv that asks only whether the buffer starts with the text's bytes
equiv_starts_with(self, other) ==
    /\ Len(other.bytes) <= Len(as_bytes(self))
    /\ \A i \in 1..Len(other.bytes) : as_bytes(self)[i] = other.bytes[i]

\* Equiv<S: Str>::equiv: self.as_bytes() == other.as_slice().as_bytes()
equiv(self, other) == SliceEq(as_bytes(self), other.bytes)

RECURSIVE ShowItems(_, _)
\* Show for [u8], the elements from position i on, ", " between them
ShowItems(s, i) ==
    IF i > Len(s) THEN ""
    ELSE (IF i > 1 THEN ", " ELSE "") \o ToString(s[i]) \o ShowItems(s, i + 1)

\* fmt::Show::fmt: write!(f, "{}", self[]), the bytes as a list of numbers
fmt(self) == "[" \o ShowItems(as_slice(self), 1) \o "]"

----------------------------------------------------------------------------
(* The state machine.                                                      *)

\* the inputs a ByteString can be constructed from
Sources ==
    [kind : {"vec", "slice", "iter"}, data : ByteSeqs]
      \cup {[kind |-> "string", data |-> MkString(cs)] : cs \in CharSeqs}
      \cup {[kind |-> "str", data |-> MkStr(cs)] : cs \in CharSeqs}

\* the states a hasher is handed over in: fresh, or after an earlier write
HasherStates == {<<>>, <<1>>}

\* the offsets handed to the slicing operations (uint: never negative)
Offsets == 0..(MaxLen + 1)

\* what a call that failed the task returned: nothing
NoValue == "no value"

\* what an operation left behind
Ret(op, args, val) == [op |-> op, args |-> args, val |-> val]

Init ==
    /\ pc = "start"
    /\ src \in Sources
    /\ buf = ByteString(<<>>)
    /\ ret = Ret("none", <<>>, <<>>)

\* a call of a borrowing method or trait function: the buffer is only read
Borrow(op, args, val) ==
    /\ pc = "live"
    /\ ret' = Ret(op, args, val)
    /\ UNCHANGED <<pc, src, buf>>

\* a call of a slicing operation: the task fails, or a view is returned
Sliced(op, args, r) ==
    /\ pc = "live"
    /\ pc' = IF r.fail THEN "failed" ELSE "live"
    /\ ret' = Ret(op, args, IF r.fail THEN NoValue ELSE r.view)
    /\ UNCHANGED <<src, buf>>

FromBytes ==
    /\ pc = "start"
    /\ src.kind \in {"vec", "slice", "string", "str"}
    /\ buf' = from_bytes(src)
    /\ pc' = "live"
    /\ ret' = Ret("from_bytes", <<>>, <<>>)
    /\ UNCHANGED src

FromIter ==
    /\ pc = "start"
    /\ src.kind = "iter"
    /\ buf' = from_iter(src.data)
    /\ pc' = "live"
    /\ ret' = Ret("from_iter", <<>>, <<>>)
    /\ UNCHANGED src

AsBytes == Borrow("as_bytes", <<>>, as_bytes(buf))

AsSlice == Borrow("as_slice", <<>>, as_slice(buf))

Deref == Borrow("deref", <<>>, deref(buf))

LenOp == Borrow("len", <<>>, len(buf))

IsEmpty == Borrow("is_empty", <<>>, is_empty(buf))

Show == Borrow("fmt", <<>>, fmt(buf))

Slice == \E i, j \in Offsets : Sliced("slice", <<i, j>>, slice_or_fail(buf, i, j))

SliceFrom == \E i \in Offsets : Sliced("slice_from", <<i>>, slice_from_or_fail(buf, i))

SliceTo == \E j \in Offsets : Sliced("slice_to", <<j>>, slice_to_or_fail(buf, j))

EqOp ==
    \E o \in OtherSeqs :
        Borrow("eq", <<o>>, eq(buf, from_bytes([kind |-> "vec", data |-> o])))

CmpOp ==
    \E o \in OtherSeqs :
        Borrow("cmp", <<o>>, cmp(buf, from_bytes([kind |-> "vec", data |-> o])))

\* a hash that takes the vector out of the buffer to feed it to the hasher
HashOpTaking ==
    \E h \in HasherStates :
        /\ pc = "live"
        /\ ret' = Ret("hash", <<h>>, hash(buf, h))
        /\ buf' = ByteString(<<>>)
        /\ UNCHANGED <<pc, src>>

HashOp == \E h \in HasherStates : Borrow("hash", <<h>>, hash(buf, h))

EquivOp == \E cs \in CharSeqs : Borrow("equiv", <<cs>>, equiv(buf, MkStr(cs)))

IntoBytes ==
    /\ pc = "live"
    /\ pc' = "consumed"
    /\ ret' = Ret("into_bytes", <<>>, into_bytes(buf))
    /\ UNCHANGED <<src, buf>>

IntoUtf8String ==
    /\ pc = "live"
    /\ pc' = "consumed"
    /\ ret' = Ret("into_utf8_string", <<>>, into_utf8_string(buf))
    /\ UNCHANGED <<src, buf>>

Next ==
    \/ FromBytes
    \/ FromIter
    \/ AsBytes
    \/ AsSlice
    \/ Deref
    \/ LenOp
    \/ IsEmpty
    \/ Show
    \/ Slice
    \/ SliceFrom
    \/ SliceTo
    \/ EqOp
    \/ CmpOp
    \/ HashOp
    \/ EquivOp
    \/ IntoBytes
    \/ IntoUtf8String

Spec == Init /\ [][Next]_vars

----------------------------------------------------------------------------
(* Vocabulary of the properties.                                           *)

\* the byte sequence b the buffer was constructed from
SrcBytes ==
    CASE src.kind \in {"vec", "slice", "iter"} -> src.data
      [] src.kind = "string" -> src.data.vec
      [] src.kind = "str" -> src.data.bytes

Min(x, y) == IF x <= y THEN x ELSE y

\* a Unicode scalar value: a code point that is no surrogate
IsScalar(c) == c >= 0 /\ c <= 1114111 /\ ~(c >= 55296 /\ c <= 57343)

\* the value whose bits the bytes p (one to four of them) would carry
ScalarOf(p) ==
    CASE Len(p) = 1 -> p[1]
      [] Len(p) = 2 -> (p[1] - 192) * 64 + (p[2] - 128)
      [] Len(p) = 3 -> (p[1] - 224) * 4096 + (p[2] - 128) * 64 + (p[3] - 128)
      [] Len(p) = 4 ->
            (p[1] - 240) * 262144 + (p[2] - 128) * 4096 + (p[3] - 128) * 64 + (p[4] - 128)

\* p is the UTF-8 encoding of some scalar value
EncodesScalar(p) == IsScalar(ScalarOf(p)) /\ EncodeUtf8(ScalarOf(p)) = p

RECURSIVE WellFormed(_)
\* well-formed UTF-8: a concatenation of encodings of scalar values
WellFormed(b) ==
    \/ b = <<>>
    \/ \E n \in 1..Min(4, Len(b)) :
          /\ EncodesScalar(SubSeq(b, 1, n))
          /\ WellFormed(SubSeq(b, n + 1, Len(b)))

\* a comes before b in the lexicographic order of unsigned byte values: at
\* the first position where they differ a has the smaller byte, or a is a
\* proper prefix of b
LexLess(a, b) ==
    \E k \in 0..Min(Len(a), Len(b)) :
        /\ \A i \in 1..k : a[i] = b[i]
        /\ \/ k = Len(a) /\ k < Len(b)
           \/ k < Len(a) /\ k < Len(b) /\ a[k + 1] < b[k + 1]

Lex(a, b) ==
    IF LexLess(a, b) THEN "Less" ELSE IF LexLess(b, a) THEN "Greater" ELSE "Equal"

Reverse(o) == CASE o = "Less" -> "Greater" [] o = "Greater" -> "Less" [] OTHER -> o

\* the buffer from_bytes makes of the owned vector o
Other(o) == from_bytes([kind |-> "vec", data |-> o])

----------------------------------------------------------------------------
(* The properties.                                                         *)

\* C1: whenever the bytes b the buffer was built from are not well-formed
\* UTF-8, into_utf8_string returns the error outcome and the ByteString in
\* the error holds exactly b.
C1_FailureLossless ==
    (ret.op = "into_utf8_string" /\ ~WellFormed(SrcBytes)) =>
        /\ ~ret.val.ok
        /\ DOMAIN ret.val.val = {"f0"}
        /\ Len(ret.val.val.f0) = Len(SrcBytes)
        /\ ret.val.val.f0 = SrcBytes

C1_Witness ==
    /\ ret.op = "into_utf8_string"
    /\ SrcBytes = <<255, 50, 48, 49>>
    /\ ~ret.val.ok
    /\ ret.val.val.f0 = <<255, 50, 48, 49>>

\* C2: into_utf8_string succeeds exactly when the bytes are well-formed
\* UTF-8, a success returns a String holding exactly those bytes, and a
\* buffer built from a text (owned or borrowed) always succeeds and gives
\* that text back.
C2_Utf8RoundTrip ==
    ret.op = "into_utf8_string" =>
        /\ ret.val.ok <=> WellFormed(SrcBytes)
        /\ ret.val.ok => ret.val.val = [vec |-> SrcBytes]
        /\ src.kind = "string" => ret.val.ok /\ ret.val.val = src.data
        /\ src.kind = "str" => ret.val.ok /\ ret.val.val.vec = src.data.bytes

C2_Witness ==
    /\ ret.op = "into_utf8_string"
    /\ src.kind = "str"
    /\ src.data.bytes = <<104, 101, 108, 108, 111>>
    /\ ret.val.ok
    /\ ret.val.val = MkString(<<104, 101, 108, 108, 111>>)

\* C3: whatever the construction path (owned vector, borrowed slice, owned
\* text, borrowed text, iterator), into_bytes returns exactly the bytes b
\* the buffer was constructed from.
C3_ConstructionRoundTrip ==
    ret.op = "into_bytes" =>
        /\ Len(ret.val) = Len(SrcBytes)
        /\ \A i \in 1..Len(SrcBytes) : ret.val[i] = SrcBytes[i]

C3_Witness ==
    /\ ret.op = "into_bytes"
    /\ src.kind = "iter"
    /\ src.data = <<255, 50, 48, 49>>
    /\ ret.val = <<255, 50, 48, 49>>

\* C4: == on two buffers is true exactly when their byte sequences are the
\* same, and a buffer equal to this one, fed to a hasher in the same state,
\* leaves the hasher in the same state as this one does.
C4_EqHashConsistent ==
    /\ ret.op = "eq" => (ret.val <=> SrcBytes = ret.args[1])
    /\ ret.op = "hash" =>
          \A o \in ByteSeqs \cup OtherSeqs :
              eq(buf, Other(o)) => hash(Other(o), ret.args[1]) = ret.val

C4_Witness ==
    /\ ret.op = "eq"
    /\ SrcBytes = <<97, 98, 99>>
    /\ ret.args[1] = <<97, 98, 99>>
    /\ ret.val = TRUE

\* C5: cmp on two buffers is the lexicographic order of their bytes as
\* unsigned values, a proper prefix first; it is Equal exactly when == is
\* true, and swapping the operands reverses it.
C5_OrderingLexicographic ==
    ret.op = "cmp" =>
        /\ ret.val = Lex(SrcBytes, ret.args[1])
        /\ ret.val = "Equal" <=> eq(buf, Other(ret.args[1]))
        /\ cmp(Other(ret.args[1]), buf) = Reverse(ret.val)

C5_Witness ==
    /\ ret.op = "cmp"
    /\ SrcBytes = <<97, 98>>
    /\ ret.args[1] = <<97, 98, 99>>
    /\ ret.val = "Less"

\* C6: with offsets 0 <= i <= j <= len(b), slice(i, j) returns the j - i
\* bytes b[i..j], slice_from(i) returns b[i..len(b)] and slice_to(j)
\* returns b[0..j]; so slice(0, 0) is an empty view.
C6_SliceCorrect ==
    /\ (ret.op = "slice" /\ ret.args[1] <= ret.args[2] /\ ret.args[2] <= Len(SrcBytes)) =>
          /\ pc # "failed"
          /\ Len(ret.val) = ret.args[2] - ret.args[1]
          /\ ret.val = SubSeq(SrcBytes, ret.args[1] + 1, ret.args[2])
    /\ (ret.op = "slice_from" /\ ret.args[1] <= Len(SrcBytes)) =>
          /\ pc # "failed"
          /\ ret.val = SubSeq(SrcBytes, ret.args[1] + 1, Len(SrcBytes))
    /\ (ret.op = "slice_to" /\ ret.args[1] <= Len(SrcBytes)) =>
          /\ pc # "failed"
          /\ ret.val = SubSeq(SrcBytes, 1, ret.args[1])

C6_Witness ==
    /\ ret.op = "slice"
    /\ SrcBytes = <<104, 101, 108, 108, 111>>
    /\ ret.args = <<1, 3>>
    /\ ret.val = <<101, 108>>

\* C7: a slicing call whose offsets break 0 <= start <= end <= len() fails
\* the task: no view is returned, and the buffer still holds b.
C7_OutOfBoundsFails ==
    LET bad ==
            \/ ret.op = "slice"
                 /\ (ret.args[1] > ret.args[2] \/ ret.args[2] > Len(SrcBytes))
            \/ ret.op = "slice_from" /\ ret.args[1] > Len(SrcBytes)
            \/ ret.op = "slice_to" /\ ret.args[1] > Len(SrcBytes)
    IN  bad => pc = "failed" /\ ret.val = NoValue /\ buf.f0 = SrcBytes

C7_Witness ==
    /\ pc = "failed"
    /\ ret.op = "slice"
    /\ ret.args = <<2, 1>>
    /\ Len(SrcBytes) = 5
    /\ ret.val = NoValue

\* C8: equiv(t) is true exactly when the buffer's bytes are the UTF-8
\* encoding of t: same length and the same byte at every position.
C8_EquivExact ==
    ret.op = "equiv" =>
        (ret.val <=>
            /\ Len(SrcBytes) = Len(StrBytes(ret.args[1]))
            /\ \A i \in 1..Len(SrcBytes) : SrcBytes[i] = StrBytes(ret.args[1])[i])

C8_Witness ==
    /\ ret.op = "equiv"
    /\ SrcBytes = <<97, 98, 99>>
    /\ ret.args[1] = <<97, 98, 100>>
    /\ ret.val = FALSE

\* C9: a step that leaves the buffer alive (any borrowing operation)
\* leaves its bytes as they were, so as_bytes before and after agree; and
\* the same operation with the same arguments returns what it returned
\* before.
C9_Immutable ==
    [][(pc = "live" /\ pc' = "live") =>
          /\ buf' = buf
          /\ as_bytes(buf') = as_bytes(buf)
          /\ (ret'.op = ret.op /\ ret'.args = ret.args) => ret'.val = ret.val]_vars

C9_Witness ==
    /\ pc = "live"
    /\ ret.op = "hash"
    /\ SrcBytes = <<255, 50, 48, 49>>
    /\ as_bytes(buf) = <<255, 50, 48, 49>>

\* C10: len() is the number of bytes of b, as_bytes() has that length,
\* and is_empty() is true exactly when len() is 0, which is exactly when
\* b is the empty sequence.
C10_LenAndEmpty ==
    /\ ret.op = "len" => ret.val = Len(SrcBytes)
    /\ ret.op = "as_bytes" => Len(ret.val) = Len(SrcBytes)
    /\ ret.op = "is_empty" =>
          /\ ret.val <=> len(buf) = 0
          /\ ret.val <=> SrcBytes = <<>>

C10_Witness ==
    /\ ret.op = "is_empty"
    /\ SrcBytes = <<>>
    /\ ret.val = TRUE

====
